---- MODULE Spec2Model ----
\* A model of eas-cli's interactive credential engine (askForUserProvidedAsync),
\* the Android job assembler (prepareJobAsync) and the iOS scheme resolver
\* (resolveSchemeAsync / startIosBuildAsync).
\*
\* JavaScript strings are modelled as sequences of character codes, so that
\* comparison, substring search and base64 encoding are computed, not assumed.
EXTENDS Integers, Sequences, FiniteSets, TLC

VARIABLES
    \* ---- credential engine ----
    pc,             \* position of askForUserProvidedAsync: idle/optin/ask/returned/threw
    schema,         \* the CredentialSchema of the current call
    initialValues,  \* the initialValues argument of the current call
    qi,             \* index (1-based) of the question of the for loop at line 54
    results,        \* `results` of getCredentialsFromUserAsync (line 53)
    ret,            \* what the current call returned
    trace,          \* what the current call did, in order (prompts, warning, transform)
    attempts,       \* the answers the prompt of question `aq` has validated so far
    aq,             \* the question `attempts` belongs to
    resolved,       \* the value processAnswerAsync returned for each question so far
    provide,        \* the answer to the opt-in prompt of the current call, once given
    expertCalled,   \* lodash once(): whether EXPERT_PROMPT's function already ran
    warnCount,      \* number of log.warn emissions in this process
    optIns,         \* number of calls in this process whose opt-in answer was true
    calls,          \* number of askForUserProvidedAsync calls in this process
    \* ---- job assembler ----
    jpc,            \* position of prepareJobAsync: idle/gitRoot/secretEnvs/sanitize/returned/threw
    ctx,            \* the BuildContext argument: buildProfile and working directory
    jobData,        \* the JobData argument
    projectRootDirectory, \* the local of lines 227 and 242
    secretEnvs,     \* what readSecretEnvsAsync returned (line 197)
    partialJob,     \* the partial job assembled by the workflow's branch
    jobRet,         \* what prepareJobAsync returned
    collaborators,  \* the collaborators called by the current call, in order, with arguments
    \* ---- iOS build orchestrator and scheme resolver ----
    spc,            \* position of startIosBuildAsync: idle/select/started
    ios,            \* its inputs: workflow, buildProfile.scheme, the project's schemes, nonInteractive
    resolver,       \* what resolveSchemeAsync did: called, prompted, choices offered, returned
    iosNativeProjectScheme  \* the projectConfiguration passed to startBuildForPlatformAsync

credVars == <<pc, schema, initialValues, qi, results, ret, trace, attempts, aq, resolved,
              provide, expertCalled, warnCount, optIns, calls>>

jobVars == <<jpc, ctx, jobData, projectRootDirectory, secretEnvs, partialJob, jobRet,
             collaborators>>

iosVars == <<spc, ios, resolver, iosNativeProjectScheme>>

vars == <<credVars, jobVars, iosVars>>

-----------------------------------------------------------------------------
\* Bounds of the model.
MaxQuestions == 2
MaxRetries == 2
MaxCalls == 2
MaxSchemes == 3

-----------------------------------------------------------------------------
\* Strings as sequences of character codes.
EmptyString == <<>>
Str(s) == [kind |-> "string", val |-> s]
Undefined == [kind |-> "undefined", val |-> <<>>]

-----------------------------------------------------------------------------
\* The environment of the credential engine: the user's home and working
\* directory, a small file system, and what a user may type.
HomeDir == <<47, 104>>                  \* "/h"
Cwd == <<47, 119>>                      \* "/w"

NoEntry == [kind |-> "none", bytes |-> <<>>]
DirEntry == [kind |-> "dir", bytes |-> <<>>]
FileEntry(b) == [kind |-> "file", bytes |-> b]

\* "/h/k" holds the bytes "Ma" and "/w/z" one non-ASCII byte; "/d" is a directory.
FileSystem(p) ==
    CASE p = <<47, 104, 47, 107>> -> FileEntry(<<77, 97>>)
      [] p = <<47, 119, 47, 122>> -> FileEntry(<<255>>)
      [] p = HomeDir -> DirEntry
      [] p = Cwd -> DirEntry
      [] p = <<47, 100>> -> DirEntry
      [] OTHER -> NoEntry

\* "", "a", "b"
TextInputs == {<<>>, <<97>>, <<98>>}
\* "~/k", " z ", "/d", ""
PathInputs == {<<126, 47, 107>>, <<32, 122, 32>>, <<47, 100>>, <<>>}

\* The initialValues arguments: {} and {f1: "d"}.
NoValues == [f \in {} |-> <<>>]
InitialValueSets == {NoValues, [f \in {"f1"} |-> <<100>>]}

\* Question, lines 9-14.
Question(f, t, b) == [field |-> f, type |-> t, base64Encode |-> b]
QuestionPool ==
    << Question("f1", "string", FALSE), Question("f1", "file", TRUE),
       Question("f2", "password", FALSE), Question("f2", "file", FALSE) >>

\* The question lists of the schemas: up to MaxQuestions consecutive questions
\* of the pool (taken cyclically), so that every type occurs at every position
\* and some lists repeat a field name.
QuestionLists ==
    { [k \in 1..n |-> QuestionPool[((i + k - 2) % Len(QuestionPool)) + 1]] :
        i \in 1..Len(QuestionPool), n \in 0..MaxQuestions }

\* CredentialSchema<T>, lines 16-25. transformResultAsync is supplied by the
\* caller: absent, a function deriving a bundle, or a function that rejects.
CredentialSchemas ==
    [questions : QuestionLists, transformResultAsync : {"absent", "derive", "reject"}]

-----------------------------------------------------------------------------
\* Pure functions of the credential engine.

\* String.prototype.trim on a code sequence (32 = space, 9 = tab, 10 = newline).
IsSpace(c) == c \in {32, 9, 10}
RECURSIVE TrimLeft(_)
TrimLeft(s) == IF s # <<>> /\ IsSpace(Head(s)) THEN TrimLeft(Tail(s)) ELSE s
RECURSIVE TrimRight(_)
TrimRight(s) ==
    IF s # <<>> /\ IsSpace(s[Len(s)]) THEN TrimRight(SubSeq(s, 1, Len(s) - 1)) ELSE s
Trim(s) == TrimRight(TrimLeft(s))

\* untildify: a leading "~" followed by the end or a separator becomes the home directory.
Untildify(p) ==
    IF p # <<>> /\ p[1] = 126 /\ (Len(p) = 1 \/ p[2] \in {47, 92})
    THEN HomeDir \o Tail(p)
    ELSE p

IsAbsolute(p) == p # <<>> /\ p[1] = 47

\* path.resolve of a relative path without "." or ".." segments.
PathResolve(p) == IF p = <<>> THEN Cwd ELSE Cwd \o <<47>> \o p

produceAbsolutePath(filePath) ==
    LET untildified == Untildify(Trim(filePath))
    IN  IF ~IsAbsolute(untildified) THEN PathResolve(untildified) ELSE untildified

validateNonEmptyInput_AcceptsAll(val) == TRUE

validateNonEmptyInput(val) == val # EmptyString

\* TRUE, or the message to display.
validateExistingFileAsync(filePath) ==
    LET stats == FileSystem(filePath)
    IN  CASE stats.kind = "file" -> "true"
          [] stats.kind = "dir" -> "Input is not a file."
          [] OTHER -> "File does not exist."

\* Buffer.toString('base64').
Base64Char(i) ==
    CASE i < 26 -> 65 + i
      [] i < 52 -> 97 + (i - 26)
      [] i < 62 -> 48 + (i - 52)
      [] i = 62 -> 43
      [] OTHER -> 47
RECURSIVE Base64(_)
Base64(b) ==
    CASE Len(b) = 0 -> <<>>
      [] Len(b) = 1 ->
            <<Base64Char(b[1] \div 4), Base64Char((b[1] % 4) * 16), 61, 61>>
      [] Len(b) = 2 ->
            <<Base64Char(b[1] \div 4), Base64Char((b[1] % 4) * 16 + b[2] \div 16),
              Base64Char((b[2] % 16) * 4), 61>>
      [] OTHER ->
            <<Base64Char(b[1] \div 4), Base64Char((b[1] % 4) * 16 + b[2] \div 16),
              Base64Char((b[2] % 16) * 4 + b[3] \div 64), Base64Char(b[3] % 64)>>
            \o Base64(SubSeq(b, 4, Len(b)))

\* Buffer.toString('utf8') of ASCII bytes and of lone invalid bytes (U+FFFD).
Utf8(b) == [i \in 1..Len(b) |-> IF b[i] < 128 THEN b[i] ELSE 65533]

readFile(p, encoding) ==
    IF encoding = "base64" THEN Base64(FileSystem(p).bytes) ELSE Utf8(FileSystem(p).bytes)

processAnswerAsync(definition, input) ==
    IF definition.type = "file"
    THEN readFile(input, IF definition.base64Encode THEN "base64" ELSE "utf8")
    ELSE input

buildQuestionObject(definition, initialValue) ==
    CASE definition.type = "string" ->
            [type |-> "text", initial |-> initialValue, format |-> "none",
             validate |-> "validateNonEmptyInput"]
      [] definition.type = "file" ->
            [type |-> "text", initial |-> Undefined, format |-> "produceAbsolutePath",
             validate |-> "validateExistingFileAsync"]
      [] OTHER ->
            [type |-> "password", initial |-> Undefined, format |-> "none",
             validate |-> "validateNonEmptyInput"]

\* (initialValues as any)?.[question.field], line 57.
InitialValueOf(iv, field) == IF field \in DOMAIN iv THEN Str(iv[field]) ELSE Undefined

\* The prompt primitive: an empty entry takes the default shown, `format` is
\* applied to the entry, and `validate` decides on the formatted value.
PromptValue(questionObject, raw) ==
    LET entered == IF raw = EmptyString /\ questionObject.initial.kind = "string"
                   THEN questionObject.initial.val ELSE raw
    IN  IF questionObject.format = "produceAbsolutePath"
        THEN produceAbsolutePath(entered) ELSE entered

PromptAccepts(questionObject, value) ==
    IF questionObject.validate = "validateNonEmptyInput"
    THEN validateNonEmptyInput(value)
    ELSE validateExistingFileAsync(value) = "true"

\* What the user may type at a prompt of this kind.
InputsFor(questionObject) ==
    IF questionObject.format = "produceAbsolutePath" THEN PathInputs ELSE TextInputs

\* A transformResultAsync of a caller: it adds a field derived from the bag.
transformResult(answers) ==
    [f \in DOMAIN answers \cup {"derived"} |->
        IF f = "derived" THEN <<Cardinality(DOMAIN answers)>> ELSE answers[f]]

-----------------------------------------------------------------------------
\* The credential engine.

NoBag == [f \in {} |-> <<>>]
NotReturned == [kind |-> "none", val |-> NoBag]
Null == [kind |-> "null", val |-> NoBag]
Bundle(b) == [kind |-> "bundle", val |-> b]
Rejected == [kind |-> "rejected", val |-> NoBag]

Event(e, q) == [e |-> e, q |-> q]

NoJob == [f \in {} |-> <<>>]
NoResult == [kind |-> "none", val |-> <<>>]
NotCalled == [called |-> FALSE, prompted |-> FALSE, choices |-> <<>>, returned |-> NoResult]

\* The state of a process that has called none of the three entry points.
Init ==
    /\ pc = "idle"
    /\ schema = [questions |-> <<>>, transformResultAsync |-> "absent"]
    /\ initialValues = NoValues
    /\ qi = 0
    /\ results = NoBag
    /\ ret = NotReturned
    /\ trace = <<>>
    /\ attempts = <<>>
    /\ aq = 0
    /\ resolved = <<>>
    /\ provide = "unanswered"
    /\ expertCalled = FALSE
    /\ warnCount = 0
    /\ optIns = 0
    /\ calls = 0
    /\ jpc = "idle"
    /\ ctx = [workflow |-> "generic", gradleCommand |-> "", artifactPath |-> "", cwd |-> <<>>]
    /\ jobData = [archiveUrl |-> "", credentials |-> Undefined]
    /\ projectRootDirectory = <<>>
    /\ secretEnvs = Undefined
    /\ partialJob = NoJob
    /\ jobRet = NoResult
    /\ collaborators = <<>>
    /\ spc = "idle"
    /\ ios = [workflow |-> "managed", scheme |-> Undefined, schemes |-> <<>>,
              nonInteractive |-> FALSE]
    /\ resolver = NotCalled
    /\ iosNativeProjectScheme = NoResult

\* lodash once(), line 27: the wrapped function runs on the first invocation only.
OnceInvokes_EveryTime(called) == TRUE

OnceInvokes(called) == ~called

\* The condition of line 42.
UserProvides_Always(answer) == TRUE

UserProvides(answer) == answer

\* results[question.field] = ..., line 55.
StoreAnswer_Overwrite(bag, field, value) == [f \in {field} |-> value]

StoreAnswer(bag, field, value) ==
    [f \in DOMAIN bag \cup {field} |-> IF f = field THEN value ELSE bag[f]]

\* Lines 60-62: the end of getCredentialsFromUserAsync, with the bag `bag`.
ReturnCredentials(bag, tr) ==
    CASE schema.transformResultAsync = "absent" ->
            /\ ret' = Bundle(bag)
            /\ pc' = "returned"
            /\ trace' = tr
      [] schema.transformResultAsync = "derive" ->
            /\ ret' = Bundle(transformResult(bag))
            /\ pc' = "returned"
            /\ trace' = Append(tr, Event("transform", 0))
      [] OTHER ->
            /\ ret' = Rejected
            /\ pc' = "threw"
            /\ trace' = Append(tr, Event("transform", 0))

\* The for loop of lines 54-59 before its question number `next`: the prompt
\* of that question is displayed, or the loop is over.
ContinueLoop(bag, next, tr) ==
    IF next <= Len(schema.questions)
    THEN /\ qi' = next
         /\ pc' = "ask"
         /\ trace' = Append(tr, Event("prompt", next))
         /\ ret' = ret
    ELSE /\ qi' = qi
         /\ ReturnCredentials(bag, tr)

\* A call of askForUserProvidedAsync, up to the opt-in prompt of line 66.
askForUserProvidedAsync(s, iv) ==
    /\ pc \in {"idle", "returned", "threw"}
    /\ calls < MaxCalls
    /\ calls' = calls + 1
    /\ schema' = s
    /\ initialValues' = iv
    /\ pc' = "optin"
    /\ trace' = <<Event("select", 0)>>
    /\ qi' = 0
    /\ results' = NoBag
    /\ ret' = NotReturned
    /\ attempts' = <<>>
    /\ aq' = 0
    /\ resolved' = <<>>
    /\ provide' = "unanswered"
    /\ UNCHANGED <<expertCalled, warnCount, optIns, jobVars, iosVars>>

\* The user answers the opt-in prompt: lines 42-46, then 53-54.
willUserProvideCredentialsAsync(answer) ==
    /\ pc = "optin"
    /\ provide' = IF answer THEN "yes" ELSE "no"
    /\ optIns' = IF answer THEN optIns + 1 ELSE optIns
    /\ IF UserProvides(answer)
       THEN /\ expertCalled' = TRUE
            /\ warnCount' = IF OnceInvokes(expertCalled) THEN warnCount + 1 ELSE warnCount
            /\ ContinueLoop(NoBag, 1,
                 IF OnceInvokes(expertCalled)
                 THEN Append(trace, Event("warn", 0)) ELSE trace)
       ELSE /\ ret' = Null
            /\ pc' = "returned"
            /\ UNCHANGED <<expertCalled, warnCount, trace, qi>>
    /\ UNCHANGED <<schema, initialValues, results, attempts, aq, resolved, calls,
                   jobVars, iosVars>>

\* The user enters `raw` at the prompt of question qi (lines 88-90): the prompt
\* asks again when validation fails, and otherwise the answer is processed,
\* stored, and the loop goes on.
askQuestionAndProcessAnswerAsync(raw) ==
    /\ pc = "ask"
    /\ LET definition == schema.questions[qi]
           questionObject ==
               buildQuestionObject(definition, InitialValueOf(initialValues, definition.field))
           input == PromptValue(questionObject, raw)
           sofar == IF aq = qi THEN attempts ELSE <<>>
       IN  /\ raw \in InputsFor(questionObject)
           /\ attempts' = Append(sofar, input)
           /\ aq' = qi
           /\ IF PromptAccepts(questionObject, input)
              THEN LET value == processAnswerAsync(definition, input)
                       bag == StoreAnswer(results, definition.field, value)
                   IN  /\ results' = bag
                       /\ resolved' = Append(resolved, value)
                       /\ ContinueLoop(bag, qi + 1, trace)
              ELSE /\ Len(sofar) < MaxRetries
                   /\ trace' = Append(trace, Event("prompt", qi))
                   /\ UNCHANGED <<pc, qi, results, ret, resolved>>
    /\ UNCHANGED <<schema, initialValues, provide, expertCalled, warnCount, optIns, calls,
                   jobVars, iosVars>>

CredNext ==
    \/ \E s \in CredentialSchemas, iv \in InitialValueSets : askForUserProvidedAsync(s, iv)
    \/ \E answer \in BOOLEAN : willUserProvideCredentialsAsync(answer)
    \/ \E raw \in TextInputs \cup PathInputs : askQuestionAndProcessAnswerAsync(raw)

Spec == Init /\ [][CredNext]_vars

-----------------------------------------------------------------------------
\* Properties of the credential engine.

Prompted == {i \in 1..Len(trace) : trace[i].e = "prompt"}
PromptsOf(k) == Cardinality({i \in Prompted : trace[i].q = k})
Warned == \E i \in 1..Len(trace) : trace[i].e = "warn"
Fields(s) == {s.questions[i].field : i \in 1..Len(s.questions)}
UniqueFields(s) == Cardinality(Fields(s)) = Len(s.questions)

\* C1: once the opt-in answer of a call is "no", the call has returned null,
\* and all it ever did was display the opt-in prompt: no credential question
\* was prompted, no warning emitted, no transformResultAsync invoked, no
\* answer stored.
C1_DeclineReturnsNull ==
    provide = "no" =>
        /\ pc = "returned"
        /\ ret = Null
        /\ trace = <<Event("select", 0)>>
        /\ results = NoBag
        /\ resolved = <<>>

C1_Witness ==
    /\ provide = "no"
    /\ pc = "returned"
    /\ Len(schema.questions) = MaxQuestions
    /\ schema.transformResultAsync = "derive"
    /\ initialValues # NoValues
    /\ calls > 1

\* C2: the warning has been emitted exactly once if some call of the process
\* opted in and never otherwise; the call that emits it is the first call
\* that opted in, and it emits it right after the opt-in prompt, before any
\* credential question.
C2_WarnExactlyOnce ==
    /\ warnCount = IF optIns > 0 THEN 1 ELSE 0
    /\ Warned <=> (provide = "yes" /\ optIns = 1)
    /\ Warned => trace[2] = Event("warn", 0) /\ \A i \in Prompted : i > 2

C2_Witness ==
    /\ optIns > 1
    /\ provide = "yes"
    /\ warnCount = 1
    /\ Prompted # {}
    /\ ~Warned

\* C3: a bundle returned for a schema without transformResultAsync and with
\* unique field names has exactly the schema's field names as keys, each
\* holding the value resolved for its own question, the questions having been
\* asked in schema order.
C3_BundleHasSchemaFields ==
    (pc = "returned" /\ provide = "yes" /\ schema.transformResultAsync = "absent"
        /\ UniqueFields(schema)) =>
        /\ ret.kind = "bundle"
        /\ DOMAIN ret.val = Fields(schema)
        /\ Len(resolved) = Len(schema.questions)
        /\ \A i \in 1..Len(schema.questions) :
              /\ ret.val[schema.questions[i].field] = resolved[i]
              /\ PromptsOf(i) >= 1
        /\ \A i, j \in Prompted : i < j => trace[i].q <= trace[j].q

C3_Witness ==
    /\ pc = "returned"
    /\ ret.kind = "bundle"
    /\ schema.transformResultAsync = "absent"
    /\ UniqueFields(schema)
    /\ Len(schema.questions) = MaxQuestions
    /\ \E i \in 1..Len(schema.questions) : schema.questions[i].type = "file"
    /\ \E f, g \in DOMAIN ret.val : ret.val[f] # ret.val[g]

\* C4: for a question of type string, every answer before the last is empty
\* (invalid) and caused one more prompt of the same question; while the last
\* answer is invalid too nothing is stored and the next question is not
\* asked; once an answer is valid, it is the one stored value of the field
\* and the number of re-prompts equals the number of invalid answers.
C4_RetryStoresLastValid ==
    (aq >= 1 /\ schema.questions[aq].type = "string") =>
        LET n == Len(attempts) - 1
            field == schema.questions[aq].field
        IN  /\ \A j \in 1..n : attempts[j] = EmptyString
            /\ \A i \in Prompted : trace[i].q <= Len(resolved) + 1
            /\ IF pc = "ask" /\ qi = aq
               THEN /\ attempts[n + 1] = EmptyString
                    /\ Len(resolved) = aq - 1
                    /\ PromptsOf(aq) = n + 2
                    /\ PromptsOf(aq + 1) = 0
               ELSE /\ attempts[n + 1] # EmptyString
                    /\ Len(resolved) = aq
                    /\ resolved[aq] = attempts[n + 1]
                    /\ results[field] = attempts[n + 1]
                    /\ PromptsOf(aq) = n + 1

C4_Witness ==
    /\ aq >= 1
    /\ schema.questions[aq].type = "string"
    /\ Len(attempts) = MaxRetries + 1
    /\ attempts[1] = EmptyString
    /\ attempts[Len(attempts)] # EmptyString
    /\ pc = "ask"
    /\ qi = aq + 1
    /\ results[schema.questions[aq].field] = attempts[Len(attempts)]

-----------------------------------------------------------------------------
\* The Android job assembler. Its strings are opaque, so they stay TLA+
\* strings; paths are sequences of segments.

\* Workflow.Generic, Workflow.Managed, and a value that is neither.
Workflows == {"generic", "managed", "unsupported"}

\* process.cwd() is /r/p in every context.
BuildContexts ==
    [workflow : Workflows,
     gradleCommand : {":app:assembleRelease", ":app:bundleRelease"},
     artifactPath : {"app/build/outputs/apk/release/app-release.apk"},
     cwd : {<<"r", "p">>}]

Keystore(k, sp, a, kp) ==
    [keystore |-> k, keystorePassword |-> sp, keyAlias |-> a, keyPassword |-> kp]
AndroidCredentials(k) == [kind |-> "object", val |-> [keystore |-> k]]

\* JobData, lines 162-165: credentials may be absent.
JobDatas ==
    [archiveUrl : {"https://x/archive.tar.gz"},
     credentials : {Undefined,
                    AndroidCredentials(Keystore("BASE64", "p1", "a", "p2")),
                    AndroidCredentials(Keystore("QkFTRQ==", "sp", "alias", "kp"))}]

\* What the collaborators may answer. gitRootDirectoryAsync: the working
\* directory itself, its parent, or a sibling of it.
GitRoots == {<<"r", "p">>, <<"r">>, <<"r", "q">>}
\* readSecretEnvsAsync: undefined, an empty mapping, or a mapping with an entry.
NoSecretEnvs == [k \in {} |-> ""]
SecretEnvs ==
    {Undefined, [kind |-> "object", val |-> NoSecretEnvs],
     [kind |-> "object", val |-> [k \in {"NPM_TOKEN"} |-> "t0k3n"]]}

\* path.relative(from, to) of two absolute paths.
RECURSIVE CommonPrefix(_, _)
CommonPrefix(a, b) ==
    IF a # <<>> /\ b # <<>> /\ Head(a) = Head(b) THEN 1 + CommonPrefix(Tail(a), Tail(b)) ELSE 0
PathRelative(from, to) ==
    LET c == CommonPrefix(from, to)
    IN  [i \in 1..(Len(from) - c) |-> ".."] \o SubSeq(to, c + 1, Len(to))

\* path.relative(await gitRootDirectoryAsync(), process.cwd()) || '.', lines 227 and 242.
ProjectRootDirectory(gitRoot, cwd) ==
    IF PathRelative(gitRoot, cwd) = <<>> THEN <<".">> ELSE PathRelative(gitRoot, cwd)

\* JavaScript truthiness of an object or undefined.
Truthy(v) == v.kind # "undefined"

\* { ...a, ...b }
Spread(a, b) == [k \in DOMAIN a \cup DOMAIN b |-> IF k \in DOMAIN b THEN b[k] ELSE a[k]]
NoKeys == [k \in {} |-> <<>>]

\* Lines 202-207.
KeystoreCopy_Swapped(keystore) ==
    [dataBase64 |-> keystore.keystore,
     keystorePassword |-> keystore.keyPassword,
     keyAlias |-> keystore.keyAlias,
     keyPassword |-> keystore.keystorePassword]

KeystoreCopy(keystore) ==
    [dataBase64 |-> keystore.keystore,
     keystorePassword |-> keystore.keystorePassword,
     keyAlias |-> keystore.keyAlias,
     keyPassword |-> keystore.keyPassword]

\* Lines 199-210.
BuildCredentials(credentials) ==
    IF Truthy(credentials)
    THEN [k \in {"buildCredentials"} |-> [keystore |-> KeystoreCopy(credentials.val.keystore)]]
    ELSE NoKeys

\* ...(secretEnvs ? { secretEnvs } : {}), line 216.
SecretEnvsSpread_Always(envs) == [k \in {"secretEnvs"} |-> envs.val]

SecretEnvsSpread(envs) ==
    IF Truthy(envs) THEN [k \in {"secretEnvs"} |-> envs.val] ELSE NoKeys

\* The value returned by prepareJobCommonAsync, lines 212-219.
prepareJobCommonAsync(jd, envs) ==
    [platform |-> "android",
     projectUrl |-> jd.archiveUrl,
     secrets |-> Spread(SecretEnvsSpread(envs), BuildCredentials(jd.credentials))]

\* The value returned by prepareGenericJobAsync, lines 228-234.
prepareGenericJobAsync(c, jd, envs, root) ==
    Spread(prepareJobCommonAsync(jd, envs),
           [type |-> "generic",
            gradleCommand |-> c.gradleCommand,
            artifactPath |-> c.artifactPath,
            projectRootDirectory |-> root])

\* The value returned by prepareManagedJobAsync, lines 243-247.
prepareManagedJobAsync(c, jd, envs, root) ==
    Spread(prepareJobCommonAsync(jd, envs),
           [type |-> "managed", projectRootDirectory |-> root])

\* The branch prepareJobAsync takes, lines 171-179.
Branch_DefaultsToManaged(workflow) == IF workflow = "generic" THEN "generic" ELSE "managed"

Branch(workflow) ==
    CASE workflow = "generic" -> "generic"
      [] workflow = "managed" -> "managed"
      [] OTHER -> "throw"

\* sanitizeJob: the validated, normalised Job made from a partial job.
sanitizeJob(partial) == [kind |-> "Job", val |-> partial]
Unsanitized(partial) == [kind |-> "Partial", val |-> partial]

\* return sanitizeJob(partialJob), lines 173 and 176.
ReturnedJob_Unsanitized(branch, sanitized, partial) ==
    IF branch = "managed" THEN Unsanitized(partial) ELSE sanitized

ReturnedJob(branch, sanitized, partial) == sanitized

Called(name, arg) == [name |-> name, arg |-> arg]
Threw == [kind |-> "threw", val |-> <<>>]

\* A call of prepareJobAsync, up to its first await (line 227 or 242), or up
\* to the throw of line 178.
prepareJobAsync(c, jd) ==
    /\ jpc \in {"idle", "returned", "threw"}
    /\ ctx' = c
    /\ jobData' = jd
    /\ projectRootDirectory' = <<>>
    /\ secretEnvs' = Undefined
    /\ partialJob' = NoJob
    /\ IF Branch(c.workflow) = "throw"
       THEN /\ jpc' = "threw"
            /\ jobRet' = Threw
            /\ collaborators' = <<>>
       ELSE /\ jpc' = "gitRoot"
            /\ jobRet' = NoResult
            /\ collaborators' = <<Called("gitRootDirectoryAsync", <<>>)>>
    /\ UNCHANGED <<credVars, iosVars>>

\* gitRootDirectoryAsync answers with the repository root: lines 227/242, then
\* prepareJobCommonAsync up to its await of line 197.
gitRootDirectoryReturns(gitRoot) ==
    /\ jpc = "gitRoot"
    /\ projectRootDirectory' = ProjectRootDirectory(gitRoot, ctx.cwd)
    /\ jpc' = "secretEnvs"
    /\ collaborators' = Append(collaborators, Called("readSecretEnvsAsync", <<>>))
    /\ UNCHANGED <<ctx, jobData, secretEnvs, partialJob, jobRet, credVars, iosVars>>

\* readSecretEnvsAsync answers: the partial job is assembled and handed to sanitizeJob.
readSecretEnvsReturns(envs) ==
    /\ jpc = "secretEnvs"
    /\ secretEnvs' = envs
    /\ partialJob' =
          IF Branch(ctx.workflow) = "generic"
          THEN prepareGenericJobAsync(ctx, jobData, envs, projectRootDirectory)
          ELSE prepareManagedJobAsync(ctx, jobData, envs, projectRootDirectory)
    /\ jpc' = "sanitize"
    /\ collaborators' = Append(collaborators, Called("sanitizeJob", partialJob'))
    /\ UNCHANGED <<ctx, jobData, projectRootDirectory, jobRet, credVars, iosVars>>

\* sanitizeJob returns the Job, which prepareJobAsync returns.
sanitizeJobReturns ==
    /\ jpc = "sanitize"
    /\ jobRet' = ReturnedJob(Branch(ctx.workflow), sanitizeJob(partialJob), partialJob)
    /\ jpc' = "returned"
    /\ UNCHANGED <<ctx, jobData, projectRootDirectory, secretEnvs, partialJob, collaborators,
                   credVars, iosVars>>

\* The collaborator prepareJobAsync is waiting for fails: nothing catches it.
collaboratorThrows ==
    /\ jpc \in {"gitRoot", "secretEnvs", "sanitize"}
    /\ jobRet' = Threw
    /\ jpc' = "threw"
    /\ UNCHANGED <<ctx, jobData, projectRootDirectory, secretEnvs, partialJob, collaborators,
                   credVars, iosVars>>

JobNext ==
    \/ \E c \in BuildContexts, jd \in JobDatas : prepareJobAsync(c, jd)
    \/ \E gitRoot \in GitRoots : gitRootDirectoryReturns(gitRoot)
    \/ \E envs \in SecretEnvs : readSecretEnvsReturns(envs)
    \/ sanitizeJobReturns
    \/ collaboratorThrows

JobSpec == Init /\ [][JobNext]_vars

-----------------------------------------------------------------------------
\* Properties of the job assembler.

Assembled == partialJob # NoJob
SupportedWorkflow == ctx.workflow \in {"generic", "managed"}

\* C5: a value returned by prepareJobAsync, in either workflow, is the Job
\* sanitizeJob made from the partial job assembled for this call, sanitizeJob
\* being the last collaborator called; a partial job is never returned, and
\* when a collaborator has failed, the call has thrown and returned no job.
C5_ReturnsOnlySanitized ==
    /\ jobRet.kind \in {"none", "Job", "threw"}
    /\ jobRet.kind = "Job" <=> jpc = "returned"
    /\ jobRet.kind = "threw" <=> jpc = "threw"
    /\ jpc = "returned" =>
          /\ SupportedWorkflow
          /\ Assembled
          /\ partialJob.type = ctx.workflow
          /\ partialJob.projectUrl = jobData.archiveUrl
          /\ jobRet.val = partialJob
          /\ Len(collaborators) = 3
          /\ collaborators[3] = Called("sanitizeJob", partialJob)

C5_Witness ==
    /\ jpc = "returned"
    /\ ctx.workflow = "managed"
    /\ jobRet.kind = "Job"
    /\ "buildCredentials" \in DOMAIN jobRet.val.secrets
    /\ "secretEnvs" \in DOMAIN jobRet.val.secrets

\* C6: when the workflow is neither Generic nor Managed, the call has thrown:
\* no job is returned, no partial job of either branch is assembled and no
\* collaborator (git root, secret envs, sanitizeJob) is called.
C6_UnknownWorkflowThrows ==
    ~SupportedWorkflow =>
        /\ jpc = "threw"
        /\ jobRet = Threw
        /\ ~Assembled
        /\ collaborators = <<>>

C6_Witness ==
    /\ ~SupportedWorkflow
    /\ jpc = "threw"
    /\ Truthy(jobData.credentials)

\* C7, as claimed: the assembled secrets have the key secretEnvs only if
\* readSecretEnvsAsync returned a non-empty mapping; after undefined or an
\* empty mapping there is no such key.
C7_Original ==
    Assembled =>
        ("secretEnvs" \in DOMAIN partialJob.secrets
            <=> (secretEnvs.kind = "object" /\ DOMAIN secretEnvs.val # {}))

\* C7, amended: the assembled secrets have the key secretEnvs if and only if
\* readSecretEnvsAsync returned a mapping (anything but undefined), and the
\* key then holds that mapping unchanged, also when the mapping is empty.
C7_SecretEnvsIffDefined ==
    Assembled =>
        /\ "secretEnvs" \in DOMAIN partialJob.secrets <=> secretEnvs.kind = "object"
        /\ secretEnvs.kind = "object" => partialJob.secrets.secretEnvs = secretEnvs.val

C7_Witness ==
    /\ Assembled
    /\ secretEnvs.kind = "object"
    /\ DOMAIN secretEnvs.val = {}
    /\ "secretEnvs" \in DOMAIN partialJob.secrets

\* C8: the assembled secrets have the key buildCredentials if and only if
\* jobData.credentials is present, and its keystore is then the copy
\* dataBase64 = keystore, keystorePassword = keystorePassword, keyAlias =
\* keyAlias, keyPassword = keyPassword, with these four fields only.
C8_BuildCredentialsCopy ==
    Assembled =>
        /\ "buildCredentials" \in DOMAIN partialJob.secrets <=> jobData.credentials.kind = "object"
        /\ jobData.credentials.kind = "object" =>
              LET from == jobData.credentials.val.keystore
                  to == partialJob.secrets.buildCredentials
              IN  /\ DOMAIN to = {"keystore"}
                  /\ DOMAIN to.keystore =
                        {"dataBase64", "keystorePassword", "keyAlias", "keyPassword"}
                  /\ to.keystore.dataBase64 = from.keystore
                  /\ to.keystore.keystorePassword = from.keystorePassword
                  /\ to.keystore.keyAlias = from.keyAlias
                  /\ to.keystore.keyPassword = from.keyPassword

C8_Witness ==
    /\ Assembled
    /\ jobData.credentials = AndroidCredentials(Keystore("BASE64", "p1", "a", "p2"))
    /\ partialJob.secrets.buildCredentials.keystore =
          [dataBase64 |-> "BASE64", keystorePassword |-> "p1", keyAlias |-> "a",
           keyPassword |-> "p2"]
    /\ ctx.workflow = "generic"

-----------------------------------------------------------------------------
\* The iOS build orchestrator and its scheme resolver. Scheme names are
\* strings, that is, sequences of character codes.

\* "App", "AppTV", "App-tvOS", "tvOS"
SchemeNames ==
    { <<65, 112, 112>>, <<65, 112, 112, 84, 86>>,
      <<65, 112, 112, 45, 116, 118, 79, 83>>, <<116, 118, 79, 83>> }

RECURSIVE SeqsUpTo(_, _)
SeqsUpTo(S, n) ==
    IF n = 0 THEN {<<>>}
    ELSE LET shorter == SeqsUpTo(S, n - 1)
         IN  shorter \cup {Append(l, x) : l \in shorter, x \in S}

\* What getSchemesFromXcodeproj may find: up to MaxSchemes different names, in any order.
SchemeLists ==
    {l \in SeqsUpTo(SchemeNames, MaxSchemes) : \A i, j \in 1..Len(l) : l[i] = l[j] => i = j}

IosInputs ==
    [workflow : {"generic", "managed"},
     scheme : {Undefined, Str(<<65, 112, 112>>)},
     schemes : SchemeLists,
     nonInteractive : BOOLEAN]

\* a < b for JavaScript strings: by code unit, a proper prefix first.
RECURSIVE StringLess(_, _)
StringLess(a, b) ==
    CASE b = <<>> -> FALSE
      [] a = <<>> -> TRUE
      [] Head(a) # Head(b) -> Head(a) < Head(b)
      [] OTHER -> StringLess(Tail(a), Tail(b))

\* lodash sortBy(schemes): a stable ascending sort.
RECURSIVE InsertSorted(_, _)
InsertSorted(x, sorted) ==
    IF sorted = <<>> THEN <<x>>
    ELSE IF StringLess(x, Head(sorted)) THEN <<x>> \o sorted
    ELSE <<Head(sorted)>> \o InsertSorted(x, Tail(sorted))
RECURSIVE sortBy(_)
sortBy(l) == IF l = <<>> THEN <<>> ELSE InsertSorted(l[Len(l)], sortBy(SubSeq(l, 1, Len(l) - 1)))

\* String.prototype.includes
Includes(str, sub) ==
    \E i \in 1..(Len(str) - Len(sub) + 1) : SubSeq(str, i, i + Len(sub) - 1) = sub

\* 'tvOS', line 311.
TvOS == <<116, 118, 79, 83>>

\* array[i] in JavaScript, i counted from 0: undefined past the end.
ElementAt(l, i) == IF i + 1 <= Len(l) THEN Str(l[i + 1]) ELSE Undefined

\* Lines 311-312.
NonInteractiveChoice(sortedSchemes) ==
    LET withoutTvOS == SelectSeq(sortedSchemes, LAMBDA i : ~Includes(i, TvOS))
    IN  IF Len(withoutTvOS) > 0 THEN ElementAt(withoutTvOS, 0) ELSE ElementAt(sortedSchemes, 0)

\* schemes.length === 1, line 296.
SingleScheme(schemes) == Len(schemes) = 1

\* What the user may pick at a select prompt: one of its choices, and nothing
\* when it has no choice.
Selections(choices) ==
    IF choices = <<>> THEN {Undefined} ELSE {Str(choices[i]) : i \in 1..Len(choices)}

\* resolveSchemeAsync, lines 294-316, up to its return or its prompt.
ResolverStep(in) ==
    IF SingleScheme(in.schemes)
    THEN [called |-> TRUE, prompted |-> FALSE, choices |-> <<>>,
          returned |-> ElementAt(in.schemes, 0)]
    ELSE LET sortedSchemes == sortBy(in.schemes)
         IN  IF in.nonInteractive
             THEN [called |-> TRUE, prompted |-> FALSE, choices |-> <<>>,
                   returned |-> NonInteractiveChoice(sortedSchemes)]
             ELSE [called |-> TRUE, prompted |-> TRUE, choices |-> sortedSchemes,
                   returned |-> NoResult]

\* buildProfile.scheme ?? (await resolveSchemeAsync(buildCtx)), line 278.
NeedsResolver(in) == in.workflow = "generic" /\ in.scheme.kind = "undefined"

\* A call of startIosBuildAsync, up to the prompt of line 317 or, when no
\* prompt is needed, to the call of startBuildForPlatformAsync.
startIosBuildAsync(in) ==
    /\ spc \in {"idle", "started"}
    /\ ios' = in
    /\ IF NeedsResolver(in)
       THEN /\ resolver' = ResolverStep(in)
            /\ IF resolver'.prompted
               THEN /\ spc' = "select"
                    /\ iosNativeProjectScheme' = NoResult
               ELSE /\ spc' = "started"
                    /\ iosNativeProjectScheme' = resolver'.returned
       ELSE /\ resolver' = NotCalled
            /\ spc' = "started"
            /\ iosNativeProjectScheme' =
                  IF in.workflow = "generic" THEN in.scheme ELSE Undefined
    /\ UNCHANGED <<credVars, jobVars>>

\* The user answers the prompt of line 317: resolveSchemeAsync returns the
\* selection and the build is started with it.
selectScheme(selectedScheme) ==
    /\ spc = "select"
    /\ selectedScheme \in Selections(resolver.choices)
    /\ resolver' = [resolver EXCEPT !.returned = selectedScheme]
    /\ iosNativeProjectScheme' = selectedScheme
    /\ spc' = "started"
    /\ UNCHANGED <<ios, credVars, jobVars>>

IosNext ==
    \/ \E in \in IosInputs : startIosBuildAsync(in)
    \/ \E selectedScheme \in {Undefined} \cup {Str(n) : n \in SchemeNames} :
          selectScheme(selectedScheme)

IosSpec == Init /\ [][IosNext]_vars

-----------------------------------------------------------------------------
\* Properties of the scheme resolver.

Discovered == {ios.schemes[i] : i \in 1..Len(ios.schemes)}
IsSorted(l) == \A i, j \in 1..Len(l) : i < j => ~StringLess(l[j], l[i])
SamePermutation(a, b) ==
    /\ Len(a) = Len(b)
    /\ {a[i] : i \in 1..Len(a)} = {b[i] : i \in 1..Len(b)}
\* The first (smallest) name of a non-empty set of names.
Least(S) == CHOOSE x \in S : \A y \in S : x = y \/ StringLess(x, y)
HasTvOS(n) == \E i \in 1..Len(n) : i + 3 <= Len(n) /\ <<n[i], n[i + 1], n[i + 2], n[i + 3]>> = TvOS

\* C9: the resolver prompts only when it found more than one scheme and the
\* run is interactive, and then offers the schemes sorted; one scheme is
\* returned without a prompt; several schemes in non-interactive mode give,
\* without a prompt, the first sorted scheme without "tvOS" in its name, or
\* the first sorted scheme when all names have it.
C9_PromptOnlyWhenAmbiguous ==
    resolver.called =>
        /\ resolver.prompted =>
              /\ Len(ios.schemes) > 1
              /\ ~ios.nonInteractive
              /\ IsSorted(resolver.choices)
              /\ SamePermutation(resolver.choices, ios.schemes)
        /\ Len(ios.schemes) = 1 =>
              ~resolver.prompted /\ resolver.returned = Str(ios.schemes[1])
        /\ (Len(ios.schemes) > 1 /\ ios.nonInteractive) =>
              /\ ~resolver.prompted
              /\ LET plain == {n \in Discovered : ~HasTvOS(n)}
                 IN  resolver.returned =
                        Str(IF plain # {} THEN Least(plain) ELSE Least(Discovered))

\* With at least one scheme in the project, the statement of C9 does hold: it
\* fails for the empty list alone.
C9_HoldsWithCandidates == ios.schemes # <<>> => C9_PromptOnlyWhenAmbiguous

\* C10: whenever resolveSchemeAsync has returned, the value it returned, which
\* startIosBuildAsync passes on as iosNativeProjectScheme, is one of the
\* schemes found in the project.
C10_ReturnsDiscoveredScheme ==
    (resolver.called /\ spc = "started") =>
        /\ resolver.returned.kind = "string"
        /\ resolver.returned.val \in Discovered
        /\ iosNativeProjectScheme = resolver.returned

\* With at least one scheme in the project, so does the statement of C10.
C10_HoldsWithCandidates == ios.schemes # <<>> => C10_ReturnsDiscoveredScheme

====
